---- MODULE Spec2Model ----
(***************************************************************************)
(* Command::parse (the tokenizer of lib.rs / main.rs) and the accessor     *)
(* layer of the parsed command, as a state machine.                        *)
(*                                                                         *)
(* A character is a one-character string, a Rust String is a sequence of   *)
(* characters.  The input string is read through the Chars iterator only,  *)
(* so the iterator is modelled by the number of characters it has handed   *)
(* out (pos) and whether it has returned None (ended); the character that  *)
(* each chars.next() hands out is chosen when the call is made.  The       *)
(* inputs covered this way are every string of at most MaxLen characters   *)
(* over Chars, and every string of at most MaxPlainLen characters over     *)
(* PlainChars (longer commands without quoting or escaping).               *)
(***************************************************************************)
EXTENDS Integers, Sequences, FiniteSets, TLC

\* Bound on the length of an input string over Chars.
MaxLen == 6
\* Bound on the length of an input string over PlainChars.
MaxPlainLen == 11

Dash == "-"
Space == " "
DQuote == "\""
SQuote == "'"
Backslash == "\\"
\* The characters an input is made of: two ordinary characters, one
\* whitespace character, and every character the tokenizer treats specially.
Chars == {"a", "b", Dash, Space, DQuote, SQuote, Backslash}
\* The characters of the longer inputs.
PlainChars == {"a", Dash, Space}
\* The two classes of input strings.
InputClasses == {[chars |-> Chars, len |-> MaxLen],
                 [chars |-> PlainChars, len |-> MaxPlainLen]}
\* Option::None, for next_c and quote.
None == "None"

\* The value of the history variables while there is no parsed command.
NoCommand == [arguments |-> <<>>, switches |-> {}, flags |-> <<>>]
NoTaken == [arguments |-> <<>>, flags |-> <<>>]

IsWhitespace(c) == c = Space
IsQuoteChar(c) == c \in {DQuote, SQuote}

VARIABLES
    input,      \* the class of the input string `command`
    debug,      \* cfg(debug_assertions): debug_assert! is compiled in
    pc,         \* position in Command::parse, then "done" / "err" / "panic"
    pos,        \* characters handed out by `chars` so far
    ended,      \* `chars` has returned None
    next_c,     \* Option<char>
    name_buf,
    value_buf,
    quote,      \* Option<char>, local to the value collection loop
    arg_mode,
    arguments,  \* VecDeque<String>
    switches,   \* HashSet<String>
    flags,      \* HashMap<String, VecDeque<String>>: a function on its keys
    err,        \* message of the error returned, "" if none
    raw_tok,    \* history: the input characters read for the current value token
    parsed,     \* history: the command as Command::parse returned it
    taken       \* history: what the accessors have removed from the command

scan_vars == <<input, debug, pos, ended, next_c, name_buf, value_buf, quote,
               arg_mode, err, raw_tok>>
hist_vars == <<parsed, taken>>
vars == <<scan_vars, pc, arguments, switches, flags, hist_vars>>

ArgModes == {"Argument", "FlagName", "ShortFlagName", "FlagValue",
             "ShortFlagValue", "RestIsRaw", "Unset"}

----------------------------------------------------------------------------
(* The Chars iterator. *)

\* Outcomes of chars.next() from iterator state (p, e): the character handed
\* out (or None) and the iterator state after the call.
ChNext(p, e) ==
    {[c |-> None, pos |-> p, ended |-> TRUE]}
    \cup (IF ~e /\ p < input.len
          THEN {[c |-> ch, pos |-> p + 1, ended |-> FALSE] : ch \in input.chars}
          ELSE {})

\* Outcomes of chars.next_non_whitespace(): any number k of whitespace
\* characters is read and dropped, then the next call's result is returned.
ChNextNonWhitespace(p, e) ==
    IF e THEN ChNext(p, e)
    ELSE UNION {{o \in ChNext(p + k, FALSE) : ~IsWhitespace(o.c)} :
                    k \in 0..(input.len - p)}

----------------------------------------------------------------------------
Init ==
    /\ input \in InputClasses
    /\ debug \in BOOLEAN
    /\ pc = "start"
    /\ pos = 0
    /\ ended = FALSE
    /\ next_c = None
    /\ name_buf = <<>>
    /\ value_buf = <<>>
    /\ quote = None
    /\ arg_mode = "Unset"
    /\ arguments = <<>>
    /\ switches = {}
    /\ flags = <<>>
    /\ err = ""
    /\ raw_tok = <<>>
    /\ parsed = NoCommand
    /\ taken = NoTaken

\* let mut next_c = chars.next_non_whitespace();
ParseStart ==
    /\ pc = "start"
    /\ \E o \in ChNextNonWhitespace(pos, ended) :
          /\ next_c' = o.c
          /\ pos' = o.pos
          /\ ended' = o.ended
    /\ pc' = "loop"
    /\ UNCHANGED <<hist_vars, input, debug, name_buf, value_buf, quote, arg_mode, arguments,
                   switches, flags, err, raw_tok>>

\* while next_c.is_some() fails: Ok(Self { arguments, switches, flags }).
\* The locals of parse are dropped on return.
ParseOk ==
    /\ pc = "loop"
    /\ next_c = None
    /\ pc' = "done"
    /\ pos' = 0
    /\ ended' = FALSE
    /\ name_buf' = <<>>
    /\ value_buf' = <<>>
    /\ quote' = None
    /\ arg_mode' = "Unset"
    /\ raw_tok' = <<>>
    /\ parsed' = [arguments |-> arguments, switches |-> switches,
                  flags |-> flags]
    /\ taken' = [arguments |-> <<>>, flags |-> [k \in DOMAIN flags |-> <<>>]]
    /\ UNCHANGED <<input, debug, next_c, arguments, switches, flags, err>>

\* '-' if arg_mode != RestIsRaw, then Some('-'), then whitespace:
\* rest-is-raw; the main loop continues without a commit.
EnterRestIsRaw ==
    /\ pc = "loop"
    /\ next_c = Dash
    /\ arg_mode # "RestIsRaw"
    /\ \E o1 \in ChNext(pos, ended) :
          /\ o1.c = Dash
          /\ \E o2 \in ChNext(o1.pos, o1.ended) :
                /\ o2.c # None
                /\ IsWhitespace(o2.c)
                /\ \E o3 \in ChNextNonWhitespace(o2.pos, o2.ended) :
                      /\ next_c' = o3.c
                      /\ pos' = o3.pos
                      /\ ended' = o3.ended
    /\ arg_mode' = "RestIsRaw"
    /\ pc' = "loop"
    /\ UNCHANGED <<hist_vars, input, debug, name_buf, value_buf, quote, arguments, switches,
                   flags, err, raw_tok>>

\* '-' then Some('-') not followed by whitespace: a long flag name begins.
BeginFlagName ==
    /\ pc = "loop"
    /\ next_c = Dash
    /\ arg_mode # "RestIsRaw"
    /\ \E o1 \in ChNext(pos, ended) :
          /\ o1.c = Dash
          /\ \E o2 \in ChNext(o1.pos, o1.ended) :
                /\ ~(o2.c # None /\ IsWhitespace(o2.c))
                /\ next_c' = o2.c
                /\ pos' = o2.pos
                /\ ended' = o2.ended
    /\ arg_mode' = "FlagName"
    /\ pc' = "name"
    /\ UNCHANGED <<hist_vars, input, debug, name_buf, value_buf, quote, arguments, switches,
                   flags, err, raw_tok>>

\* '-' then anything but '-': a short flag name begins.
BeginShortFlagName ==
    /\ pc = "loop"
    /\ next_c = Dash
    /\ arg_mode # "RestIsRaw"
    /\ \E o1 \in ChNext(pos, ended) :
          /\ o1.c # Dash
          /\ next_c' = o1.c
          /\ pos' = o1.pos
          /\ ended' = o1.ended
    /\ arg_mode' = "ShortFlagName"
    /\ pc' = "name"
    /\ UNCHANGED <<hist_vars, input, debug, name_buf, value_buf, quote, arguments, switches,
                   flags, err, raw_tok>>

----------------------------------------------------------------------------
(* Name collection loop. *)

\* Mutant: the name loop has no arm for quote characters.
NameError_NoQuoteArm(c, mode, nb) ==
    IF c = Backslash THEN "Escapes are not valid in names."
    ELSE IF c = Dash /\ mode = "ShortFlagName"
        THEN "Short flags cannot contain hyphens"
    ELSE IF c = Dash /\ nb = <<>> THEN "Flag names cannot start with a hyphen"
    ELSE IF c = None /\ nb = <<>> THEN "EOL before flag name."
    ELSE ""

\* The bail! arm the name loop's match takes on next_c, "" if it takes none.
NameError(c, mode, nb) ==
    IF c = Backslash THEN "Escapes are not valid in names."
    ELSE IF IsQuoteChar(c) THEN "Quotes are not valid in names."
    ELSE IF c = Dash /\ mode = "ShortFlagName"
        THEN "Short flags cannot contain hyphens"
    ELSE IF c = Dash /\ nb = <<>> THEN "Flag names cannot start with a hyphen"
    ELSE IF c = None /\ nb = <<>> THEN "EOL before flag name."
    ELSE ""

\* Whether the name loop's match breaks out of the loop on next_c.
NameBreaks(c, mode, nb) ==
    /\ NameError(c, mode, nb) = ""
    /\ (c = None \/ IsWhitespace(c))

NameBail ==
    /\ pc = "name"
    /\ NameError(next_c, arg_mode, name_buf) # ""
    /\ err' = NameError(next_c, arg_mode, name_buf)
    /\ pc' = "err"
    /\ UNCHANGED <<hist_vars, input, debug, pos, ended, next_c, name_buf, value_buf, quote,
                   arg_mode, arguments, switches, flags, raw_tok>>

NameEnd ==
    /\ pc = "name"
    /\ NameBreaks(next_c, arg_mode, name_buf)
    /\ pc' = "commit"
    /\ UNCHANGED <<hist_vars, input, debug, pos, ended, next_c, name_buf, value_buf, quote,
                   arg_mode, arguments, switches, flags, err, raw_tok>>

\* Some(c) => name_buf.write_char(c), then next_c = chars.next()
NameChar ==
    /\ pc = "name"
    /\ NameError(next_c, arg_mode, name_buf) = ""
    /\ ~NameBreaks(next_c, arg_mode, name_buf)
    /\ name_buf' = Append(name_buf, next_c)
    /\ \E o \in ChNext(pos, ended) :
          /\ next_c' = o.c
          /\ pos' = o.pos
          /\ ended' = o.ended
    /\ UNCHANGED <<hist_vars, input, debug, pc, value_buf, quote, arg_mode, arguments, switches,
                   flags, err, raw_tok>>

----------------------------------------------------------------------------
(* Value collection loop. *)

\* arg_mode = match arg_mode { ... _ => unreachable!() }
ValueMode(mode) ==
    CASE mode = "FlagName" -> "FlagValue"
      [] mode = "ShortFlagName" -> "ShortFlagValue"
      [] mode = "Unset" -> "Argument"
      [] mode = "RestIsRaw" -> "RestIsRaw"
      [] OTHER -> "unreachable"

\* The second arm of the main loop's match: any character that does not
\* begin a name.
BeginValue ==
    /\ pc = "loop"
    /\ next_c # None
    /\ ~(next_c = Dash /\ arg_mode # "RestIsRaw")
    /\ IF ValueMode(arg_mode) = "unreachable"
       THEN /\ pc' = "panic"
            /\ UNCHANGED arg_mode
       ELSE /\ pc' = "value"
            /\ arg_mode' = ValueMode(arg_mode)
    /\ quote' = None
    /\ raw_tok' = <<>>
    /\ UNCHANGED <<hist_vars, input, debug, pos, ended, next_c, name_buf, value_buf, arguments,
                   switches, flags, err>>

\* Mutant: any quote character closes an open quote.
ValueArm_AnyQuoteCloses(c, q) ==
    IF c = Backslash THEN "escape"
    ELSE IF IsQuoteChar(c) /\ q = None THEN "open"
    ELSE IF IsQuoteChar(c) THEN "close"
    ELSE IF c # None /\ IsWhitespace(c) /\ q = None THEN "space"
    ELSE IF c # None THEN "char"
    ELSE IF q # None THEN "eol_in_quote"
    ELSE "eol"

\* Mutant: whitespace ends the token even while a quote is open.
ValueArm_SpaceEndsInQuote(c, q) ==
    IF c = Backslash THEN "escape"
    ELSE IF IsQuoteChar(c) /\ q = None THEN "open"
    ELSE IF IsQuoteChar(c) /\ q = c THEN "close"
    ELSE IF c # None /\ IsWhitespace(c) THEN "space"
    ELSE IF c # None THEN "char"
    ELSE IF q # None THEN "eol_in_quote"
    ELSE "eol"

\* The arm the value loop's match takes on next_c with `quote` = q.
ValueArm(c, q) ==
    IF c = Backslash THEN "escape"
    ELSE IF IsQuoteChar(c) /\ q = None THEN "open"
    ELSE IF IsQuoteChar(c) /\ q = c THEN "close"
    ELSE IF c # None /\ IsWhitespace(c) /\ q = None THEN "space"
    ELSE IF c # None THEN "char"
    ELSE IF q # None THEN "eol_in_quote"
    ELSE "eol"

\* Mutant: the backslash is dropped and the character after it is looked at
\* again as an ordinary character.
ValueEscape_Reexamines ==
    /\ pc = "value"
    /\ ValueArm(next_c, quote) = "escape"
    /\ \E o1 \in ChNext(pos, ended) :
          /\ o1.c # None
          /\ raw_tok' = Append(raw_tok, next_c)
          /\ next_c' = o1.c
          /\ pos' = o1.pos
          /\ ended' = o1.ended
    /\ UNCHANGED <<hist_vars, input, debug, pc, name_buf, value_buf, quote,
                   arg_mode, arguments, switches, flags, err>>

\* Some('\\') => match chars.next() { Some(c) => value_buf.write_char(c), .. }
ValueEscape ==
    /\ pc = "value"
    /\ ValueArm(next_c, quote) = "escape"
    /\ \E o1 \in ChNext(pos, ended) :
          /\ o1.c # None
          /\ value_buf' = Append(value_buf, o1.c)
          /\ raw_tok' = raw_tok \o <<next_c, o1.c>>
          /\ \E o2 \in ChNext(o1.pos, o1.ended) :
                /\ next_c' = o2.c
                /\ pos' = o2.pos
                /\ ended' = o2.ended
    /\ UNCHANGED <<hist_vars, input, debug, pc, name_buf, quote, arg_mode, arguments, switches,
                   flags, err>>

\* Some('\\') => match chars.next() { None => bail!(..) }
ValueEscapeEOL ==
    /\ pc = "value"
    /\ ValueArm(next_c, quote) = "escape"
    /\ \E o1 \in ChNext(pos, ended) :
          /\ o1.c = None
          /\ pos' = o1.pos
          /\ ended' = o1.ended
    /\ err' = "EOL after escape sequence"
    /\ pc' = "err"
    /\ UNCHANGED <<hist_vars, input, debug, next_c, name_buf, value_buf, quote, arg_mode,
                   arguments, switches, flags, raw_tok>>

\* Mutant: the opening quote is noted but the next character is not read.
ValueOpenQuote_Stays ==
    /\ pc = "value"
    /\ ValueArm(next_c, quote) = "open"
    /\ quote' = next_c
    /\ raw_tok' = Append(raw_tok, next_c)
    /\ UNCHANGED <<hist_vars, input, debug, pc, pos, ended, next_c, name_buf,
                   value_buf, arg_mode, arguments, switches, flags, err>>

ValueOpenQuote ==
    /\ pc = "value"
    /\ ValueArm(next_c, quote) = "open"
    /\ quote' = next_c
    /\ raw_tok' = Append(raw_tok, next_c)
    /\ \E o \in ChNext(pos, ended) :
          /\ next_c' = o.c
          /\ pos' = o.pos
          /\ ended' = o.ended
    /\ UNCHANGED <<hist_vars, input, debug, pc, name_buf, value_buf, arg_mode, arguments,
                   switches, flags, err>>

ValueChar ==
    /\ pc = "value"
    /\ ValueArm(next_c, quote) = "char"
    /\ value_buf' = Append(value_buf, next_c)
    /\ raw_tok' = Append(raw_tok, next_c)
    /\ \E o \in ChNext(pos, ended) :
          /\ next_c' = o.c
          /\ pos' = o.pos
          /\ ended' = o.ended
    /\ UNCHANGED <<hist_vars, input, debug, pc, name_buf, quote, arg_mode, arguments, switches,
                   flags, err>>

\* The three arms that break: closing quote, whitespace outside quotes, None.
ValueEnd ==
    /\ pc = "value"
    /\ ValueArm(next_c, quote) \in {"close", "space", "eol"}
    /\ raw_tok' = IF ValueArm(next_c, quote) = "close"
                  THEN Append(raw_tok, next_c) ELSE raw_tok
    /\ pc' = "commit"
    /\ UNCHANGED <<hist_vars, input, debug, pos, ended, next_c, name_buf, value_buf, quote,
                   arg_mode, arguments, switches, flags, err>>

\* None if quote.is_some() => bail!("EOL before closing quote")
ValueEOLInQuote ==
    /\ pc = "value"
    /\ ValueArm(next_c, quote) = "eol_in_quote"
    /\ err' = "EOL before closing quote"
    /\ pc' = "err"
    /\ UNCHANGED <<hist_vars, input, debug, pos, ended, next_c, name_buf, value_buf, quote,
                   arg_mode, arguments, switches, flags, raw_tok>>

----------------------------------------------------------------------------
(* Lookahead and commit: the end of one iteration of the main loop. *)

\* debug_assert!(cond) panics: the assertion is compiled in and cond is false.
DebugAssertFails(cond) == debug /\ ~cond

\* next_c.map_or(true, |c| c == '-')
EolOrDash(c) == c = None \/ c = Dash

\* Mutant: push_front instead of push_back.
PushFlag_Front(fl, key, value) ==
    IF key \in DOMAIN fl
    THEN [fl EXCEPT ![key] = <<value>> \o @]
    ELSE [k \in DOMAIN fl \cup {key} |-> IF k = key THEN <<value>> ELSE fl[k]]

\* flags.entry(key).or_insert_with(|| VecDeque::new()).push_back(value)
PushFlag(fl, key, value) ==
    IF key \in DOMAIN fl
    THEN [fl EXCEPT ![key] = Append(@, value)]
    ELSE [k \in DOMAIN fl \cup {key} |-> IF k = key THEN <<value>> ELSE fl[k]]

\* name.chars().map(|c| c.to_string()), collected into the set it extends
CharStrings(name) == {<<name[i]>> : i \in DOMAIN name}

\* The key of the flag a short cluster commits: name_buf.pop()
ShortFlagKey(nb) == <<nb[Len(nb)]>>

\* name_buf after name_buf.pop()
ShortFlagRest(nb) == SubSeq(nb, 1, Len(nb) - 1)

\* next_c = chars.next_non_whitespace(), the first statement of every commit
Lookahead(o) ==
    /\ o \in ChNextNonWhitespace(pos, ended)
    /\ next_c' = o.c
    /\ pos' = o.pos
    /\ ended' = o.ended

CommitPanics ==
    /\ pc' = "panic"
    /\ UNCHANGED <<hist_vars, input, debug, name_buf, value_buf, quote, arg_mode, arguments,
                   switches, flags, err, raw_tok>>

\* Mutant: the rest-is-raw commit resets the mode as the argument commit does.
CommitRestIsRaw_ResetsMode ==
    /\ pc = "commit"
    /\ arg_mode = "RestIsRaw"
    /\ \E o \in ChNextNonWhitespace(pos, ended) : Lookahead(o)
    /\ arguments' = Append(arguments, value_buf)
    /\ value_buf' = <<>>
    /\ raw_tok' = <<>>
    /\ arg_mode' = "Unset"
    /\ pc' = "loop"
    /\ UNCHANGED <<hist_vars, input, debug, name_buf, quote, switches, flags,
                   err>>

CommitRestIsRaw ==
    /\ pc = "commit"
    /\ arg_mode = "RestIsRaw"
    /\ \E o \in ChNextNonWhitespace(pos, ended) : Lookahead(o)
    /\ IF DebugAssertFails(name_buf = <<>>)
       THEN CommitPanics
       ELSE /\ arguments' = Append(arguments, value_buf)
            /\ value_buf' = <<>>
            /\ raw_tok' = <<>>
            /\ pc' = "loop"
            /\ UNCHANGED <<hist_vars, input, debug, name_buf, quote, arg_mode, switches, flags,
                           err>>

\* Mutant: the argument commit leaves the mode at Argument.
CommitArgument_KeepsMode ==
    /\ pc = "commit"
    /\ arg_mode = "Argument"
    /\ \E o \in ChNextNonWhitespace(pos, ended) : Lookahead(o)
    /\ IF DebugAssertFails(name_buf = <<>>)
       THEN CommitPanics
       ELSE /\ arguments' = Append(arguments, value_buf)
            /\ value_buf' = <<>>
            /\ raw_tok' = <<>>
            /\ pc' = "loop"
            /\ UNCHANGED <<hist_vars, input, debug, name_buf, quote, arg_mode,
                           switches, flags, err>>

CommitArgument ==
    /\ pc = "commit"
    /\ arg_mode = "Argument"
    /\ \E o \in ChNextNonWhitespace(pos, ended) : Lookahead(o)
    /\ IF DebugAssertFails(name_buf = <<>>)
       THEN CommitPanics
       ELSE /\ arguments' = Append(arguments, value_buf)
            /\ value_buf' = <<>>
            /\ raw_tok' = <<>>
            /\ arg_mode' = "Unset"
            /\ pc' = "loop"
            /\ UNCHANGED <<hist_vars, input, debug, name_buf, quote, switches, flags, err>>

\* ArgMode::FlagName if next_c.map_or(true, |c| c == '-')
CommitSwitch ==
    /\ pc = "commit"
    /\ arg_mode = "FlagName"
    /\ \E o \in ChNextNonWhitespace(pos, ended) :
          /\ Lookahead(o)
          /\ EolOrDash(o.c)
    /\ IF DebugAssertFails(name_buf # <<>>) \/ DebugAssertFails(value_buf = <<>>)
       THEN CommitPanics
       ELSE /\ switches' = switches \cup {name_buf}
            /\ name_buf' = <<>>
            /\ arg_mode' = "Unset"
            /\ pc' = "loop"
            /\ UNCHANGED <<hist_vars, input, debug, value_buf, quote, arguments, flags, err,
                           raw_tok>>

\* ArgMode::ShortFlagName if next_c.map_or(true, |c| c == '-')
CommitShortSwitches ==
    /\ pc = "commit"
    /\ arg_mode = "ShortFlagName"
    /\ \E o \in ChNextNonWhitespace(pos, ended) :
          /\ Lookahead(o)
          /\ EolOrDash(o.c)
    /\ IF DebugAssertFails(name_buf # <<>>) \/ DebugAssertFails(value_buf = <<>>)
       THEN CommitPanics
       ELSE /\ switches' = switches \cup CharStrings(name_buf)
            /\ name_buf' = <<>>
            /\ arg_mode' = "Unset"
            /\ pc' = "loop"
            /\ UNCHANGED <<hist_vars, input, debug, value_buf, quote, arguments, flags, err,
                           raw_tok>>

CommitFlag ==
    /\ pc = "commit"
    /\ arg_mode = "FlagValue"
    /\ \E o \in ChNextNonWhitespace(pos, ended) : Lookahead(o)
    /\ IF DebugAssertFails(name_buf # <<>>) \/ DebugAssertFails(value_buf # <<>>)
       THEN CommitPanics
       ELSE /\ flags' = PushFlag(flags, name_buf, value_buf)
            /\ name_buf' = <<>>
            /\ value_buf' = <<>>
            /\ raw_tok' = <<>>
            /\ arg_mode' = "Unset"
            /\ pc' = "loop"
            /\ UNCHANGED <<hist_vars, input, debug, quote, arguments, switches, err>>

\* name_buf.pop().unwrap() panics on an empty name_buf in every build.
CommitShortFlag ==
    /\ pc = "commit"
    /\ arg_mode = "ShortFlagValue"
    /\ \E o \in ChNextNonWhitespace(pos, ended) : Lookahead(o)
    /\ IF \/ DebugAssertFails(name_buf # <<>>)
          \/ DebugAssertFails(value_buf # <<>>)
          \/ name_buf = <<>>
       THEN CommitPanics
       ELSE /\ flags' = PushFlag(flags, ShortFlagKey(name_buf), value_buf)
            /\ switches' = switches \cup CharStrings(ShortFlagRest(name_buf))
            /\ name_buf' = <<>>
            /\ value_buf' = <<>>
            /\ raw_tok' = <<>>
            /\ arg_mode' = "Unset"
            /\ pc' = "loop"
            /\ UNCHANGED <<hist_vars, input, debug, quote, arguments, err>>

\* _ => {}: a name whose lookahead is a value token stays pending.
CommitPending ==
    /\ pc = "commit"
    /\ arg_mode \notin {"RestIsRaw", "Argument", "FlagValue", "ShortFlagValue"}
    /\ \E o \in ChNextNonWhitespace(pos, ended) :
          /\ Lookahead(o)
          /\ ~(arg_mode \in {"FlagName", "ShortFlagName"} /\ EolOrDash(o.c))
    /\ pc' = "loop"
    /\ UNCHANGED <<hist_vars, input, debug, name_buf, value_buf, quote, arg_mode, arguments,
                   switches, flags, err, raw_tok>>

----------------------------------------------------------------------------
(* The accessor layer: calls on the parsed command. *)

\* The flag and switch names a caller asks for.
Names == {<<"a">>, <<"a", "a">>}
\* The defaults a Flag<char> is configured with: none, or the character d.
Defaults == {None, "d"}

\* Option of a String or of a queue
Some(v) == [some |-> TRUE, val |-> v]
NoneOpt == [some |-> FALSE]

\* anyhow::Result
Ok(v) == [ok |-> TRUE, val |-> v]
Err(msg) == [ok |-> FALSE, err |-> msg]

\* str::parse::<T>() for T = char: exactly one character converts.
ParseT(str) == IF Len(str) = 1 THEN Ok(str[1]) ELSE Err("ParseCharError")

\* The map without one key: HashMap::remove
RemoveKey(fl, key) == [k \in DOMAIN fl \ {key} |-> fl[k]]

\* Each accessor below is the method as a function of the fields it reads:
\* res is the value returned, out the strings the call took out of the command
\* (returned as they are, or handed to the conversion), and the remaining
\* field is the field of the command after the call.

\* Mutant: the arguments are copied out and stay in the command.
drain_arguments_Copies(args) == [res |-> args, out |-> args, arguments |-> args]

\* self.arguments.drain(..) into a new VecDeque
drain_arguments(args) == [res |-> args, out |-> args, arguments |-> <<>>]

\* self.arguments.pop_front().context("Missing positional argument")
get_next_argument(args) ==
    IF args = <<>>
    THEN [res |-> Err("Missing positional argument"), out |-> <<>>,
          arguments |-> args]
    ELSE [res |-> Ok(Head(args)), out |-> <<Head(args)>>,
          arguments |-> Tail(args)]

\* Mutant: an argument that does not convert is put back.
parse_next_argument_PutsBack(args) ==
    LET got == get_next_argument(args)
    IN  IF ~got.res.ok THEN got
        ELSE IF ParseT(got.res.val).ok
        THEN [got EXCEPT !.res = ParseT(got.res.val)]
        ELSE [res |-> Err("Couldn't parse positional argument."),
              out |-> <<>>, arguments |-> args]

\* self.get_next_argument()?.parse::<T>().context(..)
parse_next_argument(args) ==
    LET got == get_next_argument(args)
    IN  IF ~got.res.ok THEN got
        ELSE [got EXCEPT !.res =
                IF ParseT(got.res.val).ok THEN ParseT(got.res.val)
                ELSE Err("Couldn't parse positional argument.")]

\* self.flags.remove(flag)
drain_flag(fl, flag) ==
    IF flag \in DOMAIN fl
    THEN [res |-> Some(fl[flag]), out |-> fl[flag], flags |-> RemoveKey(fl, flag)]
    ELSE [res |-> NoneOpt, out |-> <<>>, flags |-> fl]

\* Mutant: a failed pop forgets the flag.
get_next_flag_ForgetsEmptied(fl, flag) ==
    IF flag \in DOMAIN fl /\ fl[flag] # <<>>
    THEN [res |-> Ok(Head(fl[flag])), out |-> <<Head(fl[flag])>>,
          flags |-> [fl EXCEPT ![flag] = Tail(@)]]
    ELSE [res |-> Err(<<"Missing value for flag", flag>>), out |-> <<>>,
          flags |-> RemoveKey(fl, flag)]

\* self.flags.get_mut(flag).and_then(|values| values.pop_front()).context(..)
get_next_flag(fl, flag) ==
    IF flag \in DOMAIN fl /\ fl[flag] # <<>>
    THEN [res |-> Ok(Head(fl[flag])), out |-> <<Head(fl[flag])>>,
          flags |-> [fl EXCEPT ![flag] = Tail(@)]]
    ELSE [res |-> Err(<<"Missing value for flag", flag>>), out |-> <<>>,
          flags |-> fl]

\* self.get_next_flag(flag)?.parse::<T>().context(..)
parse_next_flag(fl, flag) ==
    LET got == get_next_flag(fl, flag)
    IN  IF ~got.res.ok THEN got
        ELSE [got EXCEPT !.res =
                IF ParseT(got.res.val).ok THEN ParseT(got.res.val)
                ELSE Err(<<"Couldn't parse flag", flag>>)]

\* lib.rs: self.switches.remove(switch)
get_switch(sw, switch) == [res |-> switch \in sw, switches |-> sw \ {switch}]

\* main.rs: self.switches.contains(switch)
check_switch(sw, switch) == [res |-> switch \in sw, switches |-> sw]

\* The history after a call took `strs` out of the queue of `flag`.
TakeFlag(tk, flag, strs) ==
    IF flag \in DOMAIN tk.flags
    THEN [tk EXCEPT !.flags[flag] = @ \o strs]
    ELSE tk

\* A call of an accessor of the arguments: `call` is what the method computes.
ArgumentsCall(call) ==
    /\ pc = "done"
    /\ arguments' = call.arguments
    /\ taken' = [taken EXCEPT !.arguments = @ \o call.out]
    /\ UNCHANGED <<scan_vars, pc, switches, flags, parsed>>

\* A call of an accessor of the flag `flag`.
FlagCall(flag, call) ==
    /\ pc = "done"
    /\ flags' = call.flags
    /\ taken' = TakeFlag(taken, flag, call.out)
    /\ UNCHANGED <<scan_vars, pc, arguments, switches, parsed>>

\* A call of an accessor of the switch `switch`.
SwitchCall(switch, call) ==
    /\ pc = "done"
    /\ switches' = call.switches
    /\ UNCHANGED <<scan_vars, pc, arguments, flags, parsed, taken>>

DrainArguments == ArgumentsCall(drain_arguments(arguments))

GetNextArgument ==
    ArgumentsCall(get_next_argument(arguments))

ParseNextArgument ==
    ArgumentsCall(parse_next_argument(arguments))

DrainFlag ==
    \E flag \in Names : FlagCall(flag, drain_flag(flags, flag))

GetNextFlag ==
    \E flag \in Names :
        FlagCall(flag, get_next_flag(flags, flag))

ParseNextFlag ==
    \E flag \in Names :
        FlagCall(flag, parse_next_flag(flags, flag))

GetSwitch ==
    \E switch \in Names :
        SwitchCall(switch, get_switch(switches, switch))

\* main.rs has the same accessors under the names get_arguments,
\* next_argument, get_flag and next_flag, with the same bodies; its
\* check_switch differs from get_switch.
CheckSwitch ==
    \E switch \in Names :
        SwitchCall(switch, check_switch(switches, switch))

\* Mutant: after a successful pop of the primary name the alias is popped too.
flag_parse_PopsBoth(fl, name, alias, default) ==
    LET first == get_next_flag(fl, name)
        second == get_next_flag(fl, alias.val)
        both == IF alias.some THEN get_next_flag(first.flags, alias.val).flags
                ELSE first.flags
        Convert(got, from, left) ==
            [res |-> IF ParseT(got.res.val).ok THEN ParseT(got.res.val)
                     ELSE Err("Couldn't parse flag."),
             out |-> got.out, from |-> from, flags |-> left]
    IN  IF first.res.ok THEN Convert(first, name, both)
        ELSE IF ~alias.some
        THEN [res |-> first.res, out |-> <<>>, from |-> name, flags |-> fl]
        ELSE IF second.res.ok THEN Convert(second, alias.val, second.flags)
        ELSE [res |-> IF default = None
                      THEN Err(<<"Missing value for flag", name, alias.val>>)
                      ELSE Ok(default),
              out |-> <<>>, from |-> name, flags |-> fl]

\* Mutant: a value that does not convert falls back to the default.
flag_parse_DefaultOnBadValue(fl, name, alias, default) ==
    LET first == get_next_flag(fl, name)
        second == get_next_flag(fl, alias.val)
        Convert(got, from) ==
            [res |-> IF ParseT(got.res.val).ok THEN ParseT(got.res.val)
                     ELSE IF default # None THEN Ok(default)
                     ELSE Err("Couldn't parse flag."),
             out |-> got.out, from |-> from, flags |-> got.flags]
    IN  IF first.res.ok THEN Convert(first, name)
        ELSE IF ~alias.some
        THEN [res |-> first.res, out |-> <<>>, from |-> name, flags |-> fl]
        ELSE IF second.res.ok THEN Convert(second, alias.val)
        ELSE [res |-> IF default = None
                      THEN Err(<<"Missing value for flag", name, alias.val>>)
                      ELSE Ok(default),
              out |-> <<>>, from |-> name, flags |-> fl]

\* Mutant: the default is never used.
flag_parse_NoDefault(fl, name, alias, default) ==
    LET first == get_next_flag(fl, name)
        second == get_next_flag(fl, alias.val)
        Convert(got, from) ==
            [res |-> IF ParseT(got.res.val).ok THEN ParseT(got.res.val)
                     ELSE Err("Couldn't parse flag."),
             out |-> got.out, from |-> from, flags |-> got.flags]
    IN  IF first.res.ok THEN Convert(first, name)
        ELSE IF ~alias.some
        THEN [res |-> first.res, out |-> <<>>, from |-> name, flags |-> fl]
        ELSE IF second.res.ok THEN Convert(second, alias.val)
        ELSE [res |-> Err(<<"Missing value for flag", name, alias.val>>),
              out |-> <<>>, from |-> name, flags |-> fl]

\* Flag::parse for the descriptor (name, alias, default) on the flags map;
\* from names the flag each string of out was taken from.
flag_parse(fl, name, alias, default) ==
    LET first == get_next_flag(fl, name)
        second == get_next_flag(fl, alias.val)
        Convert(got, from) ==
            [res |-> IF ParseT(got.res.val).ok THEN ParseT(got.res.val)
                     ELSE Err("Couldn't parse flag."),
             out |-> got.out, from |-> from, flags |-> got.flags]
    IN  IF first.res.ok THEN Convert(first, name)
        ELSE IF ~alias.some
        THEN [res |-> first.res, out |-> <<>>, from |-> name, flags |-> fl]
        ELSE IF second.res.ok THEN Convert(second, alias.val)
        ELSE [res |-> IF default = None
                      THEN Err(<<"Missing value for flag", name, alias.val>>)
                      ELSE Ok(default),
              out |-> <<>>, from |-> name, flags |-> fl]

\* Flag::new(name), optionally .alias(alias) and .default(default), .parse(cmd)
FlagParse ==
    \E name \in Names, alias \in {NoneOpt} \cup {Some(n) : n \in Names},
       default \in Defaults :
        LET call == flag_parse(flags, name, alias, default)
        IN  FlagCall(call.from, call)

Next ==
    \/ ParseStart
    \/ ParseOk
    \/ EnterRestIsRaw
    \/ BeginFlagName
    \/ BeginShortFlagName
    \/ NameBail
    \/ NameEnd
    \/ NameChar
    \/ BeginValue
    \/ ValueEscape
    \/ ValueEscapeEOL
    \/ ValueOpenQuote
    \/ ValueChar
    \/ ValueEnd
    \/ ValueEOLInQuote
    \/ CommitRestIsRaw
    \/ CommitArgument
    \/ CommitSwitch
    \/ CommitShortSwitches
    \/ CommitFlag
    \/ CommitShortFlag
    \/ CommitPending

Spec == Init /\ [][Next]_vars

\* The parse of a plain input: the actions that read no quote or backslash.
PlainParse ==
    \/ ParseStart
    \/ ParseOk
    \/ EnterRestIsRaw
    \/ BeginFlagName
    \/ BeginShortFlagName
    \/ NameBail
    \/ NameEnd
    \/ NameChar
    \/ BeginValue
    \/ ValueChar
    \/ ValueEnd
    \/ CommitRestIsRaw
    \/ CommitArgument
    \/ CommitSwitch
    \/ CommitShortSwitches
    \/ CommitFlag
    \/ CommitShortFlag
    \/ CommitPending

Access ==
    \/ DrainArguments
    \/ GetNextArgument
    \/ ParseNextArgument
    \/ DrainFlag
    \/ GetNextFlag
    \/ ParseNextFlag
    \/ GetSwitch
    \/ CheckSwitch
    \/ FlagParse

InitPlain == Init /\ input.chars = PlainChars

NextAccess == PlainParse \/ Access

\* A plain input is parsed, then the caller uses the accessors in any order.
SpecAccess == InitPlain /\ [][NextAccess]_vars
----------------------------------------------------------------------------
(* Claims. *)

\* C1: for every input Command::parse returns Ok or Err and never panics:
\* no unwrap on an empty name buffer, no unreachable!() and no assertion is
\* hit during the scan.
C1_NeverPanics == pc # "panic"

\* The part of C1 that holds: the unreachable!() arm is never taken.
C1_NoUnreachable == pc = "loop" => ValueMode(arg_mode) # "unreachable"
\* The one-character strings of the first n characters of a name.
Letters(name, n) == {<<name[i]>> : i \in 1..n}

\* The queue of a flag, empty for a name the map does not hold.
QueueOf(fl, key) == IF key \in DOMAIN fl THEN fl[key] ELSE <<>>

\* The map fl2 is the map fl with value pushed at the back of the queue of key.
Pushed(fl, fl2, key, value) ==
    /\ DOMAIN fl2 = DOMAIN fl \cup {key}
    /\ fl2[key] = QueueOf(fl, key) \o <<value>>
    /\ \A k \in DOMAIN fl \ {key} : fl2[k] = fl[k]

\* C2: short-flag cluster rule, outside rest-is-raw mode.  For a cluster
\* -c1..cn (n >= 1): if the next non-whitespace character is '-' or the input
\* has ended, every letter is added to switches and flags is unchanged; if a
\* value token follows, that value is appended to flags[cn] and exactly the
\* letters c1..c(n-1) are added to switches.  Stated of the step that ends
\* the main loop's iteration for the cluster (after its name, with the
\* lookahead read) and of the one for its value token.
C2_ShortClusterRule ==
    [][(/\ pc = "commit"
        /\ pc' # "commit"
        /\ arg_mode \in {"ShortFlagName", "ShortFlagValue"}
        /\ name_buf # <<>>)
       => IF arg_mode = "ShortFlagValue"
          THEN /\ Pushed(flags, flags', <<name_buf[Len(name_buf)]>>, value_buf)
               /\ switches' = switches \cup Letters(name_buf, Len(name_buf) - 1)
          ELSE IF EolOrDash(next_c')
          THEN /\ switches' = switches \cup Letters(name_buf, Len(name_buf))
               /\ flags' = flags
          ELSE /\ switches' = switches
               /\ flags' = flags
               /\ name_buf' = name_buf
               /\ pc' = "loop"]_vars

\* The rule of C2 holds of every cluster whose commit hits no assertion.
C2_RuleUnlessEmptyValue ==
    [][(/\ pc = "commit"
        /\ pc' # "commit"
        /\ arg_mode \in {"ShortFlagName", "ShortFlagValue"}
        /\ name_buf # <<>>
        /\ ~(debug /\ arg_mode = "ShortFlagValue" /\ value_buf = <<>>))
       => IF arg_mode = "ShortFlagValue"
          THEN /\ Pushed(flags, flags', <<name_buf[Len(name_buf)]>>, value_buf)
               /\ switches' = switches \cup Letters(name_buf, Len(name_buf) - 1)
          ELSE IF EolOrDash(next_c')
          THEN /\ switches' = switches \cup Letters(name_buf, Len(name_buf))
               /\ flags' = flags
          ELSE /\ switches' = switches
               /\ flags' = flags
               /\ name_buf' = name_buf
               /\ pc' = "loop"]_vars
\* C3: long-flag rule, outside rest-is-raw mode.  For a token --name: if the
\* next non-whitespace character is '-' or the input has ended, name is added
\* to switches and no value is added to flags[name]; otherwise the following
\* value token is appended to flags[name], name is not added to switches by
\* this occurrence, and the value token is not added to arguments.
C3_LongFlagRule ==
    [][(/\ pc = "commit"
        /\ pc' # "commit"
        /\ arg_mode \in {"FlagName", "FlagValue"})
       => IF arg_mode = "FlagValue"
          THEN /\ Pushed(flags, flags', name_buf, value_buf)
               /\ switches' = switches
               /\ arguments' = arguments
          ELSE IF EolOrDash(next_c')
          THEN /\ switches' = switches \cup {name_buf}
               /\ flags' = flags
               /\ arguments' = arguments
          ELSE /\ switches' = switches
               /\ flags' = flags
               /\ arguments' = arguments
               /\ name_buf' = name_buf
               /\ pc' = "loop"]_vars

\* The rule of C3 holds of every long flag whose commit hits no assertion.
C3_RuleUnlessEmptyValue ==
    [][(/\ pc = "commit"
        /\ pc' # "commit"
        /\ arg_mode \in {"FlagName", "FlagValue"}
        /\ ~(debug /\ arg_mode = "FlagValue" /\ value_buf = <<>>))
       => IF arg_mode = "FlagValue"
          THEN /\ Pushed(flags, flags', name_buf, value_buf)
               /\ switches' = switches
               /\ arguments' = arguments
          ELSE IF EolOrDash(next_c')
          THEN /\ switches' = switches \cup {name_buf}
               /\ flags' = flags
               /\ arguments' = arguments
          ELSE /\ switches' = switches
               /\ flags' = flags
               /\ arguments' = arguments
               /\ name_buf' = name_buf
               /\ pc' = "loop"]_vars
\* C4: rest-is-raw mode is permanent.  Once the tokenizer has seen "--"
\* followed by whitespace, the mode stays RestIsRaw in every later state of
\* the scan, switches and flags are never modified again, and every later
\* token, also one that starts with '-', is collected as a value and appended
\* to arguments.
C4_RestIsRawPermanent ==
    [][(arg_mode = "RestIsRaw" /\ pc \in {"loop", "value", "commit"})
       => /\ pc' # "done" => arg_mode' = "RestIsRaw"
          /\ switches' = switches
          /\ flags' = flags
          /\ (pc = "loop" /\ next_c # None) => pc' = "value"
          /\ IF pc = "commit"
             THEN arguments' = Append(arguments, value_buf) /\ pc' = "loop"
             ELSE arguments' = arguments]_vars

\* After "-- -a": the token -a is an argument, and the scan goes on in
\* rest-is-raw mode.
C4_Witness ==
    /\ arg_mode = "RestIsRaw"
    /\ pc = "loop"
    /\ arguments = <<<<Dash, "a">>>>
    /\ switches = {}
    /\ DOMAIN flags = {}
\* C5: in rest-is-raw mode every remaining whitespace-separated token is
\* appended to arguments verbatim: the string stored is character for
\* character the token as written in the input, and no remaining token can
\* make the parse fail.
C5_RawVerbatim ==
    [][(arg_mode = "RestIsRaw" /\ pc \in {"value", "commit"})
       => /\ pc' # "err"
          /\ pc = "commit" => arguments' = Append(arguments, raw_tok)]_vars

\* What quoting and escaping make of the text s read from position i on, with
\* the quote q open: a backslash stands for the character after it, the quote
\* character that opens a region and the same character closing it are
\* dropped, every other character stands for itself.
RECURSIVE Unquoted(_, _, _)
Unquoted(s, i, q) ==
    IF i > Len(s) THEN <<>>
    ELSE IF s[i] = Backslash
        THEN IF i = Len(s) THEN <<>> ELSE <<s[i + 1]>> \o Unquoted(s, i + 2, q)
    ELSE IF IsQuoteChar(s[i]) /\ q = None THEN Unquoted(s, i + 1, s[i])
    ELSE IF s[i] = q THEN Unquoted(s, i + 1, None)
    ELSE <<s[i]>> \o Unquoted(s, i + 1, q)

\* C5, amended: in rest-is-raw mode every remaining token is appended to
\* arguments and none is read as a flag or switch name, but quotes and
\* backslashes are interpreted as in any other value token: the string stored
\* is the token as written without its delimiting quote characters and with
\* each backslash replaced by the character after it; the parse still fails
\* when the input ends inside a quote or directly after a backslash, and only
\* then.
C5_RawUnquoted ==
    [][(arg_mode = "RestIsRaw" /\ pc \in {"loop", "value", "commit"})
       => /\ (pc = "loop" /\ next_c # None) => pc' = "value"
          /\ pc = "commit" =>
                /\ arguments' = Append(arguments, Unquoted(raw_tok, 1, None))
                /\ switches' = switches
                /\ flags' = flags
          /\ pc' = "err" =>
                /\ pc = "value"
                /\ \/ next_c = None /\ quote # None
                   \/ next_c = Backslash /\ ended' /\ pos' = pos
          /\ (pc = "value" /\ next_c = None /\ quote # None) => pc' = "err"
          /\ (pc = "value" /\ next_c = Backslash /\ pos' = pos)
                => pc' = "err"]_vars

\* After "-- a\ ": one argument, "a ", whose whitespace the backslash escaped.
C5_Witness ==
    /\ arg_mode = "RestIsRaw"
    /\ pc = "loop"
    /\ arguments = <<<<"a", Space>>>>
\* A step of the parse commits nothing, or the token just read behind what
\* was committed before.
C6_CommitsBehind ==
    pc \in {"loop", "name", "value", "commit"}
    => /\ \/ arguments' = arguments
          \/ arguments' = Append(arguments, value_buf)
       /\ \/ flags' = flags
          \/ \E key \in DOMAIN flags' : Pushed(flags, flags', key, value_buf)

\* The next value an accessor returns is the first that was not taken yet.
C6_FirstInFirstOut ==
    pc = "done"
    => /\ arguments # <<>> =>
            get_next_argument(arguments).res
               = Ok(parsed.arguments[Len(taken.arguments) + 1])
       /\ \A name \in Names :
            (name \in DOMAIN flags /\ flags[name] # <<>>) =>
               get_next_flag(flags, name).res
                  = Ok(parsed.flags[name][Len(taken.flags[name]) + 1])

\* C6: input order is preserved.  During the parse the token just read is put
\* behind everything committed before it: behind the arguments, or behind the
\* values of its flag.  Of the command parse returned, get_next_argument
\* returns the arguments, and get_next_flag(name) the values of name, first
\* in first out: the call after k values were taken returns the k+1st.
C6_InputOrder ==
    /\ [][C6_CommitsBehind]_vars
    /\ []C6_FirstInFirstOut

\* "-a a -a aa" was parsed and get_next_flag("a") has returned the first
\* value, a; the second, aa, is next.
C6_Witness ==
    /\ pc = "done"
    /\ <<"a">> \in DOMAIN parsed.flags
    /\ parsed.flags[<<"a">>] = << <<"a">>, <<"a", "a">> >>
    /\ taken.flags[<<"a">>] = << <<"a">> >>
    /\ flags[<<"a">>] = << <<"a", "a">> >>
\* C7: quoting in a value or argument token.  An unescaped quote character
\* read while no quote is open opens a region and is not copied.  While the
\* region is open, only the same quote character closes it, ending the
\* token, and is not copied either; the other quote character and whitespace
\* are copied into the token and do not end it.
C7_Quoting ==
    [][pc = "value"
       => /\ (quote = None /\ IsQuoteChar(next_c))
                => pc' = "value" /\ quote' = next_c /\ value_buf' = value_buf
          /\ (quote # None /\ next_c = quote)
                => pc' = "commit" /\ value_buf' = value_buf
          /\ (quote # None /\ next_c # quote)
                => \/ pc' = "value" /\ quote' = quote
                   \/ pc' = "err"
          /\ (quote # None /\ next_c # quote
                /\ (IsQuoteChar(next_c) \/ IsWhitespace(next_c)))
                => /\ pc' = "value"
                   /\ value_buf' = Append(value_buf, next_c)]_vars

\* The token "' " (a double-quoted single quote and space) has been read to
\* its closing quote.
C7_Witness ==
    /\ pc = "commit"
    /\ raw_tok = <<DQuote, SQuote, Space, DQuote>>
    /\ value_buf = <<SQuote, Space>>

\* C8: escaping in a value or argument token.  A backslash contributes
\* exactly the next raw character to the token and nothing else, whether or
\* not a quote is open; the escaped character does not end the token, does
\* not open or close a quote, and a token that begins with a backslash is
\* never read as a name.
C8_Escaping ==
    [][/\ (pc = "value" /\ next_c = Backslash /\ pc' # "err")
             => /\ pc' = "value"
                /\ quote' = quote
                /\ Len(raw_tok') = Len(raw_tok) + 2
                /\ pos' >= pos + 1
                /\ value_buf' = Append(value_buf, raw_tok'[Len(raw_tok')])
       /\ (pc = "loop" /\ next_c = Backslash) => pc' = "value"]_vars

\* The token \ \'\- has been read: whitespace, a quote and a hyphen, each
\* escaped, are its three characters.
C8_Witness ==
    /\ pc = "value"
    /\ quote = None
    /\ raw_tok = <<Backslash, Space, Backslash, SQuote, Backslash, Dash>>
    /\ value_buf = <<Space, SQuote, Dash>>
\* C9: lexical errors are fatal.  In a name (so outside rest-is-raw mode) a
\* backslash, a quote character, a hyphen in a short-flag name, or the end of
\* input with the name still empty makes parse return Err; so does, in a
\* value or argument, the end of input while a quote is open or directly
\* after an escaping backslash.  A parse that returned Err returns no
\* command.
C9_ErrorStep ==
    /\ (pc = "name" /\ arg_mode \in {"FlagName", "ShortFlagName"}
          /\ (\/ next_c = Backslash
              \/ IsQuoteChar(next_c)
              \/ next_c = Dash /\ arg_mode = "ShortFlagName"
              \/ next_c = None /\ name_buf = <<>>))
          => pc' = "err" /\ err' # ""
    /\ (pc = "value" /\ next_c = None /\ quote # None)
          => pc' = "err" /\ err' # ""
    /\ (pc = "value" /\ next_c = Backslash /\ pos' = pos)
          => pc' = "err" /\ err' # ""
    /\ pc = "err" => pc' = "err"

C9_NoCommand ==
    /\ pc = "name" => arg_mode \in {"FlagName", "ShortFlagName"}
    /\ pc = "err" => parsed = NoCommand /\ err # ""

C10_NothingTwice ==
    pc = "done"
       => /\ taken.arguments \o arguments = parsed.arguments
          /\ \A key \in DOMAIN parsed.flags :
                taken.flags[key] \o QueueOf(flags, key) = parsed.flags[key]

C10_AfterDrain ==
    /\ DrainArguments
          => /\ drain_arguments(arguments').res = <<>>
             /\ ~get_next_argument(arguments').res.ok
    /\ \A flag \in Names :
          FlagCall(flag, drain_flag(flags, flag))
             => ~get_next_flag(flags', flag).res.ok

C10_Consumed == []C10_NothingTwice /\ [][C10_AfterDrain]_vars

\* The two parsed arguments and the value of flag a have all been handed
\* out, and nothing of them is left in the command.
C10_Witness ==
    /\ pc = "done"
    /\ Len(parsed.arguments) = 2
    /\ taken.arguments = parsed.arguments
    /\ arguments = <<>>
    /\ <<"a">> \in DOMAIN parsed.flags
    /\ Len(parsed.flags[<<"a">>]) = 1
    /\ taken.flags[<<"a">>] = parsed.flags[<<"a">>]
    /\ <<"a">> \notin DOMAIN flags
\* C11: access errors leave the command unchanged.  get_next_argument with no
\* argument left, and get_next_flag(name) for a name never supplied or with an
\* empty queue, return Err and change none of arguments, switches, flags; a
\* successful get_next_flag(name) removes only the first value of that name
\* and leaves arguments, switches and every other queue unchanged.
C11_AccessStep ==
    /\ (GetNextArgument /\ arguments = <<>>)
          => /\ ~get_next_argument(arguments).res.ok
             /\ UNCHANGED <<arguments, switches, flags>>
    /\ \A flag \in Names :
          FlagCall(flag, get_next_flag(flags, flag))
             => IF QueueOf(flags, flag) = <<>>
                THEN /\ ~get_next_flag(flags, flag).res.ok
                     /\ UNCHANGED <<arguments, switches, flags>>
                ELSE /\ get_next_flag(flags, flag).res = Ok(Head(flags[flag]))
                     /\ flags' = [flags EXCEPT ![flag] = Tail(@)]
                     /\ UNCHANGED <<arguments, switches>>

C11_ErrorsLeaveUnchanged == [][C11_AccessStep]_vars

\* The argument and the value of flag a have been popped: the argument queue
\* is empty, flag a is known with an empty queue, flag aa was never supplied,
\* and a switch is still there.
C11_Witness ==
    /\ pc = "done"
    /\ parsed.arguments # <<>>
    /\ arguments = <<>>
    /\ <<"a">> \in DOMAIN flags
    /\ flags[<<"a">>] = <<>>
    /\ taken.flags[<<"a">>] # <<>>
    /\ <<"a", "a">> \notin DOMAIN flags
    /\ switches # {}

\* C12: checking a switch has one semantic.  On the same parsed command a
\* check of a switch name by get_switch (lib.rs) and by check_switch (main.rs)
\* returns the same boolean and leaves the same switches behind, and so does
\* the check after it.
C12_OneSwitchSemantic ==
    pc = "done"
       => \A switch \in Names :
             LET lib == get_switch(switches, switch)
                 main == check_switch(switches, switch)
             IN  /\ lib.res = main.res
                 /\ lib.switches = main.switches
                 /\ get_switch(lib.switches, switch).res
                       = check_switch(main.switches, switch).res
\* The descriptors Flag::new(name), .alias(..), .default(..) can build.
Aliases == {NoneOpt} \cup {Some(n) : n \in Names}

\* The value string a resolution of (name, alias) obtains from fl, in a
\* sequence: from the primary name if it has one queued, else from the alias
\* if one is configured and has one queued, else none.
Obtained(fl, name, alias) ==
    IF QueueOf(fl, name) # <<>> THEN <<Head(fl[name])>>
    ELSE IF alias.some /\ QueueOf(fl, alias.val) # <<>>
         THEN <<Head(fl[alias.val])>>
    ELSE <<>>

C14_BadValueIsErr ==
    pc = "done"
       => \A name \in Names, alias \in Aliases, default \in Defaults :
             LET got == Obtained(flags, name, alias)
             IN  (got # <<>> /\ ~ParseT(got[1]).ok)
                    => ~flag_parse(flags, name, alias, default).res.ok

\* The value aa of a flag, which is no char, has been taken from the command,
\* and another one is queued under a.
C14_Witness ==
    /\ pc = "done"
    /\ \E key \in DOMAIN taken.flags :
          /\ taken.flags[key] # <<>>
          /\ taken.flags[key][1] = <<"a", "a">>
    /\ QueueOf(flags, <<"a">>) # <<>>
    /\ ~ParseT(Head(flags[<<"a">>])).ok

\* C15: for a Flag with both an alias and a default, when neither the primary
\* name nor the alias has a value queued, Flag::parse returns Ok(default) and
\* leaves the command unchanged.
C15_AliasAndDefault ==
    pc = "done"
       => \A name \in Names, alias \in Aliases \ {NoneOpt},
             default \in Defaults \ {None} :
             LET call == flag_parse(flags, name, alias, default)
             IN  (QueueOf(flags, name) = <<>> /\ QueueOf(flags, alias.val) = <<>>)
                    => /\ call.res = Ok(default)
                       /\ call.out = <<>>
                       /\ call.flags = flags

\* A parsed command with an argument and a switch in which flag a is known
\* with an empty queue and flag aa was never supplied.
C15_Witness ==
    /\ pc = "done"
    /\ arguments # <<>>
    /\ switches # {}
    /\ <<"a">> \in DOMAIN flags
    /\ flags[<<"a">>] = <<>>
    /\ <<"a", "a">> \notin DOMAIN flags

\* C16: whenever Flag::parse obtains no value string at all and a default was
\* configured, it returns Ok(default), for every Flag with a default, whether
\* or not an alias is configured.
C16_DefaultWithoutValue ==
    pc = "done"
       => \A name \in Names, alias \in Aliases, default \in Defaults \ {None} :
             Obtained(flags, name, alias) = <<>>
                => flag_parse(flags, name, alias, default).res = Ok(default)

\* The same, for the flags that have an alias.
C16_DefaultWithAlias ==
    pc = "done"
       => \A name \in Names, alias \in Aliases \ {NoneOpt},
             default \in Defaults \ {None} :
             Obtained(flags, name, alias) = <<>>
                => flag_parse(flags, name, alias, default).res = Ok(default)
\* C17: for every input, each time the tokenizer commits a switch or a flag
\* the collected name buffer is non-empty (the assertions 'switch with empty
\* name_buf' and 'flag with empty name_buf' hold), so a dash followed by
\* whitespace never reaches a commit with an empty name.
C17_NameAtCommit ==
    [][(CommitSwitch \/ CommitShortSwitches \/ CommitFlag \/ CommitShortFlag)
          => name_buf # <<>>]_vars

\* The same for the commits of a long name: only a short name can be empty.
C17_LongNameAtCommit ==
    [][(CommitSwitch \/ CommitFlag) => name_buf # <<>>]_vars

\* C18: for every input, each time the tokenizer commits a long or short flag
\* the collected value buffer is non-empty (the assertion 'flag with empty
\* value_buf' holds): no flag ever receives the empty string as a value.
C18_ValueAtCommit ==
    /\ [][(CommitFlag \/ CommitShortFlag) => value_buf # <<>>]_vars
    /\ [](\A key \in DOMAIN flags :
             \A i \in 1..Len(flags[key]) : flags[key][i] # <<>>)

\* The same on the inputs without quote characters.
C18_PlainValueAtCommit ==
    [][(CommitFlag \/ CommitShortFlag) => value_buf # <<>>]_vars

\* C19: tokenizer mode invariant.  At the start of every iteration of the
\* main loop the mode is one of Unset, FlagName, ShortFlagName, RestIsRaw, so
\* the unreachable!() arm is never executed; the name buffer is empty whenever
\* an argument is committed, and the value buffer is empty whenever a switch
\* is committed.
C19_ModeInvariant ==
    /\ pc = "loop"
          => /\ arg_mode \in {"Unset", "FlagName", "ShortFlagName", "RestIsRaw"}
             /\ ValueMode(arg_mode) # "unreachable"
    /\ (pc = "commit" /\ arg_mode \in {"Argument", "RestIsRaw"})
          => name_buf = <<>>
    /\ (pc = "commit" /\ arg_mode \in {"FlagName", "ShortFlagName"})
          => value_buf = <<>>

\* The main loop starts an iteration with an argument committed and the name
\* of a long flag pending.
C19_Witness ==
    /\ pc = "loop"
    /\ arg_mode = "FlagName"
    /\ name_buf # <<>>
    /\ arguments # <<>>
    /\ switches # {}
    /\ next_c \notin {None, Dash}
\* The number of input characters the scan is done with: those read from the
\* iterator, less the one held in next_c.
Consumed == pos - (IF next_c # None THEN 1 ELSE 0)

\* The states in which parse is running, and the position of each within an
\* iteration of the main loop.
Running == {"start", "loop", "name", "value", "commit"}

Stage ==
    CASE pc = "start" -> 0
      [] pc = "loop" /\ next_c # None -> 1
      [] pc \in {"name", "value"} -> 2
      [] pc = "commit" -> 3
      [] pc = "loop" /\ next_c = None -> 4

\* A measure of the progress of the scan, bounded by Top, which parse has
\* when it has returned or stopped.
Top == 4 * input.len + 5

Rank == IF pc \in Running THEN 4 * Consumed + Stage ELSE Top

\* C20: Command::parse terminates on every finite input in a single
\* left-to-right pass.  The read position never moves backward; every
\* iteration of the main loop consumes at least one input character: the
\* iteration that begins a name or enters rest-is-raw mode at once, the one
\* that begins a value with the first step of the value loop; and the scan
\* eventually reaches the end of the input or an error: every step of a
\* running parse is possible and increases Rank, which never exceeds Top.
C20_PassStep ==
    /\ pc' \in Running => pos' >= pos /\ Consumed' >= Consumed
    /\ (pc = "loop" /\ pc' \in {"loop", "name"}) => Consumed' > Consumed
    /\ (pc = "loop" /\ pc' = "value") => raw_tok' = <<>> /\ next_c' # None
    /\ (pc = "value" /\ raw_tok = <<>> /\ pc' \in Running)
          => Consumed' > Consumed /\ raw_tok' # <<>>
    /\ pc = "commit" => pc' \in {"loop", "panic"}
    /\ Rank' > Rank

C20_Bounded ==
    /\ pos <= input.len
    /\ Rank <= Top
    /\ pc \in Running => ENABLED Next

C20_SinglePassTerminates == [][C20_PassStep]_vars /\ []C20_Bounded

\* The scan has read a whole input of MaxPlainLen characters in several
\* iterations of the main loop, committing an argument, a switch and a flag
\* value.
C20_Witness ==
    /\ pc = "loop"
    /\ next_c = None
    /\ pos = MaxPlainLen
    /\ ended
    /\ Len(arguments) = 1
    /\ switches # {}
    /\ flags # <<>>
\* What C21 says of one step of the scan.
C21_TokenStep ==
    \* a closing quote ends the token, whatever follows it
    /\ (pc = "value" /\ quote # None /\ next_c = quote)
          => pc' = "commit" /\ value_buf' = value_buf
    \* the token is committed and the first character after the quote that
    \* is no whitespace is up for the next iteration of the main loop
    /\ (pc = "commit" /\ quote # None /\ next_c = quote)
          => /\ pc' = "loop"
             /\ value_buf' = <<>>
             /\ raw_tok' = <<>>
             /\ next_c' # Space
             /\ next_c' = None <=> ended'
    \* which classifies that character on its own: a hyphen outside
    \* rest-is-raw mode begins a name (or enters rest-is-raw mode), any other
    \* character begins a new value or argument
    /\ (pc = "loop" /\ next_c = Dash /\ arg_mode # "RestIsRaw")
          => \/ pc' = "name" /\ name_buf' = <<>>
             \/ pc' = "loop" /\ arg_mode' = "RestIsRaw"
    /\ (pc = "loop" /\ next_c # None /\ ~(next_c = Dash /\ arg_mode # "RestIsRaw"))
          => pc' = "value" /\ value_buf' = <<>> /\ raw_tok' = <<>>
    \* a quote that opens in the middle of a bare word continues the token
    /\ (pc = "value" /\ quote = None /\ IsQuoteChar(next_c) /\ value_buf # <<>>)
          => /\ pc' = "value"
             /\ value_buf' = value_buf
             /\ UNCHANGED <<arguments, switches, flags, arg_mode>>

\* C21: a closing quote ends the current token even without following
\* whitespace: the characters directly after the closing quote start a new
\* token, classified on its own (as a name if it starts with a hyphen outside
\* rest-is-raw mode), whereas a quote that opens in the middle of a bare word
\* continues the same token.
C21_ClosingQuoteEndsToken == [][C21_TokenStep]_vars

\* The same for the commits that do not panic.
C21_UnlessPanic == [][pc' # "panic" => C21_TokenStep]_vars

\* The argument 'a' has been committed and the b of -b, which follows its
\* closing quote directly, is read as the name of a short flag.
C21_NameAfterQuote ==
    /\ pc = "name"
    /\ arg_mode = "ShortFlagName"
    /\ quote = SQuote
    /\ arguments = << <<"a">> >>
    /\ name_buf = <<>>
    /\ next_c = "b"
    /\ pos = 5
\* The strings that do not convert to the target type.
Unparsable(str) == ~ParseT(str).ok

\* What C22 says of the three typed accessors, as functions of the command.
C22_TypedCalls ==
    pc = "done"
       => /\ (arguments # <<>> /\ Unparsable(Head(arguments)))
                => LET call == parse_next_argument(arguments)
                   IN  /\ ~call.res.ok
                       /\ call.out = <<Head(arguments)>>
                       /\ call.arguments = Tail(arguments)
                       /\ get_next_argument(call.arguments).res =
                             IF Tail(arguments) = <<>>
                             THEN Err("Missing positional argument")
                             ELSE Ok(Head(Tail(arguments)))
          /\ \A flag \in Names :
                (QueueOf(flags, flag) # <<>> /\ Unparsable(Head(flags[flag])))
                   => LET call == parse_next_flag(flags, flag)
                      IN  /\ ~call.res.ok
                          /\ call.out = <<Head(flags[flag])>>
                          /\ call.flags = [flags EXCEPT ![flag] = Tail(@)]
                          /\ get_next_flag(call.flags, flag).res.ok
                                = (Tail(flags[flag]) # <<>>)
          /\ \A name \in Names, alias \in Aliases, default \in Defaults :
                LET got == Obtained(flags, name, alias)
                    call == flag_parse(flags, name, alias, default)
                IN  (got # <<>> /\ Unparsable(got[1]))
                       => /\ ~call.res.ok
                          /\ call.out = got
                          /\ call.flags = [flags EXCEPT ![call.from] = Tail(@)]

\* A call of a typed accessor changes nothing but the queue it reads.
C22_TypedStep ==
    /\ ParseNextArgument => UNCHANGED <<switches, flags>>
    /\ (ParseNextFlag \/ FlagParse) => UNCHANGED <<arguments, switches>>

\* C22: a typed accessor that fails on type conversion has still consumed its
\* input.  When parse_next_argument, parse_next_flag or Flag::parse retrieves
\* a string that does not convert to the target type, the call returns Err,
\* that string is removed from the command (a repeated call sees the next
\* element or a missing-value error), and nothing else in the command changes.
C22_FailedConversionConsumes == []C22_TypedCalls /\ [][C22_TypedStep]_vars

\* The argument aa and the value aa of flag a, neither of which is a char,
\* have been taken out of the command; the argument after aa is still there.
C22_Witness ==
    /\ pc = "done"
    /\ Len(parsed.arguments) = 2
    /\ taken.arguments = << <<"a", "a">> >>
    /\ arguments = Tail(parsed.arguments)
    /\ <<"a">> \in DOMAIN flags
    /\ taken.flags[<<"a">>] = << <<"a", "a">> >>
    /\ flags[<<"a">>] = <<>>
====
